---- MODULE Spec2Model ----
(***************************************************************************)
(* Model of the Mortality Audit dashboards (Mundial-Data).                 *)
(*                                                                         *)
(* Two Streamlit apps share one design: an upload page (Step 1) that       *)
(* normalizes a CSV with validate_and_normalize and stores the result in   *)
(* st.session_state, and analysis pages (Steps 2-4) that recompute         *)
(* group-by aggregates from the stored tables on every run.                *)
(*                                                                         *)
(* Values.  A cell is a record: NA (NaN / NaT / pd.NA), a number, a Python *)
(* str, a Timestamp or a Period.  Numbers are kept in units of 1/Q so that *)
(* fractional ages and numpy's round-half-to-even are visible.  Free text  *)
(* is a sequence of one-character strings, so that strip/lower/title and   *)
(* substring tests are computed and not assumed.                           *)
(***************************************************************************)
EXTENDS Integers, Sequences, FiniteSets, TLC

\* ------------------------------------------------------------------ bounds
\* Resolution of fractional numbers: a number cell holds q, meaning q/Q.
Q == 4
\* Largest number of data rows of a file given to validate_and_normalize alone.
MaxRows == 2
\* Largest number of data rows of a file uploaded in a session.
MaxStoredRows == 2
\* Largest number of data rows of a file uploaded as the previous month.
MaxPreviousRows == 1

\* ------------------------------------------------------------------ text
\* The characters the model uses, in ASCII order.
Ascii ==
  << " ", "-", ".", "0", "1", "2", "3", "4", "5", "6", "7", "8", "9", "<", ">",
     "A", "B", "C", "D", "E", "F", "G", "H", "I", "J", "K", "L", "M",
     "N", "O", "P", "Q", "R", "S", "T", "U", "V", "W", "X", "Y", "Z",
     "a", "b", "c", "d", "e", "f", "g", "h", "i", "j", "k", "l", "m",
     "n", "o", "p", "q", "r", "s", "t", "u", "v", "w", "x", "y", "z" >>

UpperLetters == SubSeq(Ascii, 16, 41)
LowerLetters == SubSeq(Ascii, 42, 67)
Digits == SubSeq(Ascii, 4, 13)

IndexIn(c, seq) ==
  IF \E i \in DOMAIN seq : seq[i] = c
  THEN CHOOSE i \in DOMAIN seq : seq[i] = c
  ELSE 0

\* ord(c)
Ord(c) == IndexIn(c, Ascii)

IsUpper(c) == IndexIn(c, UpperLetters) # 0
IsLower(c) == IndexIn(c, LowerLetters) # 0
IsLetter(c) == IsUpper(c) \/ IsLower(c)

LowerChar(c) == IF IsUpper(c) THEN LowerLetters[IndexIn(c, UpperLetters)] ELSE c
UpperChar(c) == IF IsLower(c) THEN UpperLetters[IndexIn(c, LowerLetters)] ELSE c

\* str.lower(), str.upper()
Lower(s) == [i \in DOMAIN s |-> LowerChar(s[i])]
Upper(s) == [i \in DOMAIN s |-> UpperChar(s[i])]

\* str.strip(): drop leading and trailing whitespace
Strip(s) ==
  LET keep == {i \in DOMAIN s : s[i] # " "}
  IN  IF keep = {} THEN << >>
      ELSE LET lo == CHOOSE i \in keep : \A j \in keep : i <= j
               hi == CHOOSE i \in keep : \A j \in keep : j <= i
           IN  SubSeq(s, lo, hi)

\* prefix test, str.startswith
StartsWith(s, p) == Len(p) <= Len(s) /\ SubSeq(s, 1, Len(p)) = p

\* substring test, `sub in s` and str.contains(sub) for a literal sub
Contains(s, sub) ==
  \E i \in 1..(Len(s) - Len(sub) + 1) : SubSeq(s, i, i + Len(sub) - 1) = sub

\* str.title(): a letter is upper-cased when it starts a run of letters,
\* lower-cased otherwise
Title(s) ==
  [i \in DOMAIN s |->
     IF i = 1 \/ ~IsLetter(s[i - 1]) THEN UpperChar(s[i]) ELSE LowerChar(s[i])]

\* s < t for Python strings: lexicographic by code point
RECURSIVE StrLess(_, _)
StrLess(s, t) ==
  IF t = << >> THEN FALSE
  ELSE IF s = << >> THEN TRUE
  ELSE IF Ord(Head(s)) # Ord(Head(t)) THEN Ord(Head(s)) < Ord(Head(t))
  ELSE StrLess(Tail(s), Tail(t))

\* ------------------------------------------------------------------ numbers
\* numpy round(): the integer nearest to n/d (d > 0), ties to the even one
RoundHalfEven(n, d) ==
  LET f == n \div d
      r == n % d
  IN  IF 2 * r < d THEN f
      ELSE IF 2 * r > d THEN f + 1
      ELSE IF f % 2 = 0 THEN f ELSE f + 1

\* ------------------------------------------------------------------ cells
NA == [k |-> "na"]
Num(q) == [k |-> "num", q |-> q]
\* a str cell: kind "num" is a numeric literal, "date" a YYYY-MM-DD text,
\* "text" any other text, held as its characters
StrNum(q) == [k |-> "str", t |-> "num", q |-> q]
StrDate(y, m, d) == [k |-> "str", t |-> "date", y |-> y, m |-> m, d |-> d]
StrText(s) == [k |-> "str", t |-> "text", s |-> s]
Timestamp(y, m, d) == [k |-> "date", y |-> y, m |-> m, d |-> d]
Period(y, m) == [k |-> "period", y |-> y, m |-> m]

\* pd.isna / pd.notna
isna(c) == c.k = "na"
notna(c) == ~isna(c)

\* Python None where a name is expected, and where a table or result is expected
None == "None"
NoTable == [k |-> "none"]

\* ------------------------------------------------------------------ dates
IsLeap(y) == (y % 4 = 0 /\ y % 100 # 0) \/ y % 400 = 0

DaysInMonth(y, m) ==
  IF m = 2 THEN (IF IsLeap(y) THEN 29 ELSE 28)
  ELSE IF m \in {4, 6, 9, 11} THEN 30 ELSE 31

\* a calendar date a Timestamp can hold (Timestamp.min is 1677-09-21,
\* Timestamp.max 2262-04-11; the model keeps to whole years inside)
ValidDate(y, m, d) ==
  /\ y \in 1678..2261
  /\ m \in 1..12
  /\ d \in 1..DaysInMonth(y, m)

\* pd.to_datetime(x, errors="coerce") of one cell
to_datetime(c) ==
  IF c.k = "date" THEN c
  ELSE IF c.k = "str" /\ c.t = "date" /\ ValidDate(c.y, c.m, c.d)
       THEN Timestamp(c.y, c.m, c.d)
  ELSE IF c.k = "num" THEN Timestamp(1970, 1, 1)   \* nanoseconds since the epoch
  ELSE NA

\* Series.dt.to_period("M") of one cell of a datetime column
to_period(c) == IF c.k = "date" THEN Period(c.y, c.m) ELSE NA

\* pd.to_numeric(x, errors="coerce") of one cell
to_numeric(c) ==
  IF c.k = "num" THEN c
  ELSE IF c.k = "str" /\ c.t = "num" THEN Num(c.q)
  ELSE NA

\* decimal digits of a natural number, at least `width` of them
RECURSIVE DigitsOf(_, _)
DigitsOf(n, width) ==
  IF n < 10 /\ width <= 1 THEN << Digits[n + 1] >>
  ELSE DigitsOf(n \div 10, width - 1) \o << Digits[(n % 10) + 1] >>

\* the text of the number q/Q; a float always shows a fraction
FormatNum(q, isFloat) ==
  LET a == IF q < 0 THEN 0 - q ELSE q
      whole == a \div Q
      cents == ((a % Q) * 100) \div Q
      frac == IF cents % 10 = 0 THEN DigitsOf(cents \div 10, 1) ELSE DigitsOf(cents, 2)
      sign == IF q < 0 THEN << "-" >> ELSE << >>
  IN  sign \o DigitsOf(whole, 1)
        \o (IF cents = 0 /\ ~isFloat THEN << >> ELSE << "." >> \o frac)

\* str(x) as Series.astype(str) produces it, as characters
AsStr(c) ==
  IF c.k = "na" THEN << "n", "a", "n" >>
  ELSE IF c.k = "num" THEN FormatNum(c.q, TRUE)
  ELSE IF c.k = "period" THEN DigitsOf(c.y, 4) \o << "-" >> \o DigitsOf(c.m, 2)
  ELSE IF c.k = "date"
       THEN DigitsOf(c.y, 4) \o << "-" >> \o DigitsOf(c.m, 2) \o << "-" >> \o DigitsOf(c.d, 2)
  ELSE IF c.t = "text" THEN c.s
  ELSE IF c.t = "num" THEN FormatNum(c.q, FALSE)
  ELSE DigitsOf(c.y, 4) \o << "-" >> \o DigitsOf(c.m, 2) \o << "-" >> \o DigitsOf(c.d, 2)

\* str of a Period column's cell: Series.astype(str) writes NaT as "NaT"
PeriodAsStr(c) == IF c.k = "na" THEN << "N", "a", "T" >> ELSE AsStr(c)

\* ------------------------------------------------------------------ tables
\* A DataFrame: its column names and its rows, each row a function from the
\* column names to cells.
DataFrame(cols, rows) == [cols |-> cols, rows |-> rows]

\* df[name] = f(row) for every row
SetCol(df, name, F(_)) ==
  DataFrame(df.cols \cup {name},
            [i \in DOMAIN df.rows |->
               [c \in df.cols \cup {name} |->
                  IF c = name THEN F(df.rows[i]) ELSE df.rows[i][c]]])

\* the cells of one column, in row order
Column(df, name) == [i \in DOMAIN df.rows |-> df.rows[i][name]]

\* Series.any() of a boolean test over a column
AnyCell(df, name, P(_)) == \E i \in DOMAIN df.rows : P(df.rows[i][name])

\* str(c).strip() of a column label; a label is its name with optional
\* surrounding whitespace
StripName(c) == c.name

\* df.columns = [str(c).strip() for c in df.columns]
TrimColumns(df) ==
  LET names == {StripName(c) : c \in df.cols}
  IN  DataFrame(names,
                [i \in DOMAIN df.rows |->
                   [n \in names |->
                      df.rows[i][CHOOSE c \in df.cols : StripName(c) = n]]])

\* ------------------------------------------------------------------ Step 1: validate_and_normalize
recognized_date_cols == << "admission_date", "discharge_date", "death_date" >>
minimal_candidates == << "admission_date", "outcome", "primary_diagnosis" >>
diagnosis_aliases == << "diagnosis", "dx", "primary_dx" >>

Range(seq) == {seq[i] : i \in DOMAIN seq}

ErrMinimal == "File must contain at least one of the minimal columns"
WarnAge == "No recognizable age columns found"
WarnSex == "No sex column found; created sex_norm = Unknown"
WarnOutcome == "No outcome column found"
WarnDiagMapped == "Mapped diagnosis column to primary_diagnosis"
WarnDiagUnknown == "No primary_diagnosis found. Filled as UNKNOWN"
WarnMonth == "No usable date to derive month"

\* col_exists_any(df, names): the first of names that is a column, or None
col_exists_any(df, names) ==
  IF \E i \in DOMAIN names : names[i] \in df.cols
  THEN names[CHOOSE i \in DOMAIN names :
               /\ names[i] \in df.cols
               /\ \A j \in DOMAIN names : names[j] \in df.cols => i <= j]
  ELSE None

\* for c in recognized_date_cols: df[c] = pd.to_datetime(df[c], errors="coerce")
ParseDates(df) ==
  DataFrame(df.cols,
            [i \in DOMAIN df.rows |->
               [c \in df.cols |->
                  IF c \in Range(recognized_date_cols)
                  THEN to_datetime(df.rows[i][c]) ELSE df.rows[i][c]]])

\* twice the median of a non-empty sequence of numbers (Series.median())
Median2(vals) ==
  LET srt == SortSeq(vals, LAMBDA a, b : a < b)
      n == Len(srt)
  IN  IF n % 2 = 1 THEN 2 * srt[(n + 1) \div 2]
      ELSE srt[n \div 2] + srt[n \div 2 + 1]

\* the scaling as it would be with a truncating int() for round()
ScaleRound_Truncating(c, factor) ==
  LET v == to_numeric(c)
  IN  IF isna(v) THEN NA ELSE Num(Q * ((factor * v.q) \div Q))

\* (pd.to_numeric(x, errors="coerce") * factor).round().astype("Int64")
ScaleRound(c, factor) ==
  LET v == to_numeric(c)
  IN  IF isna(v) THEN NA ELSE Num(Q * RoundHalfEven(factor * v.q, Q))

\* pd.to_numeric(df["age"], errors="coerce").dropna(), as the q of each number
AgeSample(df) ==
  LET col == Column(df, "age")
  IN  [i \in 1..Cardinality({j \in DOMAIN col : notna(to_numeric(col[j]))}) |->
         to_numeric(col[CHOOSE j \in DOMAIN col :
                          /\ notna(to_numeric(col[j]))
                          /\ Cardinality({h \in 1..j : notna(to_numeric(col[h]))}) = i]).q]

\* the bare-age thresholds as they would be with < 30 for <= 30
AgeFactor_StrictDays(med2) ==
  IF med2 < 2 * 30 * Q THEN 1
  ELSE IF med2 < 2 * 100 * Q THEN 30
  ELSE 365

\* which scaling the bare age column gets: 1 (days), 30 (months), 365 (years)
AgeFactor(med2) ==
  IF med2 <= 2 * 30 * Q THEN 1
  ELSE IF med2 < 2 * 100 * Q THEN 30
  ELSE 365

\* the bare-age branch once the sample is known to be non-empty
ScaleBareAge(df) ==
  LET factor == AgeFactor(Median2(AgeSample(df)))
  IN  IF factor = 1
      THEN SetCol(df, "age_days", LAMBDA r : to_numeric(r["age"]))
      ELSE SetCol(df, "age_days", LAMBDA r : ScaleRound(r["age"], factor))

\* the age block: the table and age_days_col
DeriveAge(df) ==
  IF "age_days" \in df.cols
  THEN [df |-> df, age_days_col |-> "age_days"]
  ELSE IF "age" \in df.cols
  THEN IF AgeSample(df) # << >>
       THEN [df |-> ScaleBareAge(df), age_days_col |-> "age_days"]
       ELSE [df |-> df, age_days_col |-> None]
  ELSE IF "age_months" \in df.cols
  THEN [df |-> SetCol(df, "age_days", LAMBDA r : ScaleRound(r["age_months"], 30)),
        age_days_col |-> "age_days"]
  ELSE IF "age_years" \in df.cols
  THEN [df |-> SetCol(df, "age_days", LAMBDA r : ScaleRound(r["age_years"], 365)),
        age_days_col |-> "age_days"]
  ELSE [df |-> df, age_days_col |-> None]

\* one sex value: strip, upper, MALE -> M, FEMALE -> F, else Unknown
NormSex(c) ==
  LET u == Upper(Strip(AsStr(c)))
      v == IF u = << "M", "A", "L", "E" >> THEN << "M" >>
           ELSE IF u = << "F", "E", "M", "A", "L", "E" >> THEN << "F" >>
           ELSE u
  IN  IF v \in {<< "M" >>, << "F" >>} THEN StrText(v)
      ELSE StrText(<< "U", "n", "k", "n", "o", "w", "n" >>)

DeriveSex(df) ==
  IF "sex" \in df.cols
  THEN SetCol(df, "sex_norm", LAMBDA r : NormSex(r["sex"]))
  ELSE SetCol(df, "sex_norm", LAMBDA r : StrText(<< "U", "n", "k", "n", "o", "w", "n" >>))

DEAD == << "D", "e", "a", "d" >>
ALIVE == << "A", "l", "i", "v", "e" >>
dead == << "d", "e", "a", "d" >>
alive == << "a", "l", "i", "v", "e" >>

\* the outcome lambda as it would be without its startswith tests
NormOutcome_SubstringOnly(c) ==
  LET x == Lower(Strip(AsStr(c)))
  IN  IF Contains(x, dead) THEN StrText(DEAD)
      ELSE IF Contains(x, alive) THEN StrText(ALIVE)
      ELSE StrText(Title(x))

\* the lambda of the outcome map, applied to str(x).strip().lower()
NormOutcome(c) ==
  LET x == Lower(Strip(AsStr(c)))
  IN  IF Contains(x, dead) \/ StartsWith(x, << "d" >>) THEN StrText(DEAD)
      ELSE IF Contains(x, alive) \/ StartsWith(x, << "a" >>) THEN StrText(ALIVE)
      ELSE StrText(Title(x))

DeriveOutcome(df) ==
  IF "outcome" \in df.cols
  THEN SetCol(df, "outcome_norm", LAMBDA r : NormOutcome(r["outcome"]))
  ELSE SetCol(df, "outcome_norm", LAMBDA r : NA)

DeriveDiagnosis(df) ==
  IF "primary_diagnosis" \in df.cols THEN df
  ELSE LET alt == col_exists_any(df, diagnosis_aliases)
       IN  IF alt # None
           THEN SetCol(df, "primary_diagnosis", LAMBDA r : StrText(AsStr(r[alt])))
           ELSE SetCol(df, "primary_diagnosis",
                       LAMBDA r : StrText(<< "U", "N", "K", "N", "O", "W", "N" >>))

\* the anchor as it would be chosen without the notna().any() tests
MonthAnchor_ColumnOnly(df) ==
  IF "admission_date" \in df.cols THEN "admission_date"
  ELSE IF "death_date" \in df.cols THEN "death_date"
  ELSE None

\* date_for_month: the anchor column, chosen once for the table
MonthAnchor(df) ==
  IF "admission_date" \in df.cols /\ AnyCell(df, "admission_date", notna)
  THEN "admission_date"
  ELSE IF "death_date" \in df.cols /\ AnyCell(df, "death_date", notna)
  THEN "death_date"
  ELSE None

DeriveMonth(df) ==
  LET anchor == MonthAnchor(df)
  IN  IF anchor = None THEN SetCol(df, "month", LAMBDA r : NA)
      ELSE SetCol(df, "month", LAMBDA r : to_period(r[anchor]))

\* df.isna().sum().to_dict()
MissingReport(df) ==
  [c \in df.cols |-> Cardinality({i \in DOMAIN df.rows : isna(df.rows[i][c])})]

NormWarnings(df) ==
  LET aged == DeriveAge(df)
  IN  (IF aged.age_days_col = None THEN << WarnAge >> ELSE << >>)
      \o (IF "sex" \in df.cols THEN << >> ELSE << WarnSex >>)
      \o (IF "outcome" \in df.cols THEN << >> ELSE << WarnOutcome >>)
      \o (IF "primary_diagnosis" \in df.cols THEN << >>
          ELSE IF col_exists_any(df, diagnosis_aliases) # None
               THEN << WarnDiagMapped >> ELSE << WarnDiagUnknown >>)
      \o (IF MonthAnchor(ParseDates(df)) = None THEN << WarnMonth >> ELSE << >>)

\* the minimal-column test as it would be with all() for any()
HasMinimal_AllRequired(df) ==
  \A i \in DOMAIN minimal_candidates : minimal_candidates[i] \in df.cols

\* the minimal-column test of lines 77-78
HasMinimal(df) == \E i \in DOMAIN minimal_candidates : minimal_candidates[i] \in df.cols

validate_and_normalize(df0) ==
  LET df == TrimColumns(df0)
  IN  IF ~HasMinimal(df)
      THEN [df |-> NoTable, errors |-> << ErrMinimal >>, warnings |-> << >>,
            missing_report |-> << >>, date_for_month |-> None]
      ELSE LET out == DeriveMonth(DeriveDiagnosis(DeriveOutcome(DeriveSex(
                        DeriveAge(ParseDates(df)).df))))
           IN  [df |-> out, errors |-> << >>, warnings |-> NormWarnings(df),
                missing_report |-> MissingReport(out),
                date_for_month |-> MonthAnchor(ParseDates(df))]

\* ------------------------------------------------------------------ uploaded tables
\* A column label as read from the CSV header: its name, and whether it
\* carries surrounding whitespace.
Label(n) == [name |-> n, pad |-> FALSE]
Padded(n) == [name |-> n, pad |-> TRUE]

\* the column names the apps look for
ColNames ==
  {"patient_id", "sex", "age_days", "age", "age_months", "age_years",
   "admission_date", "discharge_date", "death_date", "outcome",
   "primary_diagnosis", "diagnosis", "dx", "primary_dx"}

\* all rows over the labels L whose cells are drawn from dom[name]
RECURSIVE RowsOver(_, _)
RowsOver(L, dom) ==
  IF L = {} THEN {<< >>}
  ELSE LET c == CHOOSE x \in L : TRUE
       IN  {(c :> v) @@ r : v \in dom[c.name], r \in RowsOver(L \ {c}, dom)}

\* all tables over the labels L with at most n rows
TablesOver(L, dom, n) ==
  UNION {{DataFrame(L, rows) : rows \in [1..h -> RowsOver(L, dom)]} : h \in 0..n}

\* pd.read_csv's typing of one column: a column whose non-empty cells are
\* all numeric literals is numeric; in any other column every non-empty
\* cell stays a str, numeric literals included
ObjectColumn(file, c) == \E i \in DOMAIN file.rows : file.rows[i][c].k = "str"

read_csv(file) ==
  DataFrame(file.cols,
            [i \in DOMAIN file.rows |->
               [c \in file.cols |->
                  LET v == file.rows[i][c]
                  IN  IF v.k = "num" /\ ObjectColumn(file, c) THEN StrNum(v.q) ELSE v]])

\* some texts
Txt_abc == << "a", "b", "c" >>
Date_Sep01 == StrDate(2025, 9, 1)
Date_Sep04 == StrDate(2025, 9, 4)
Date_Oct02 == StrDate(2025, 10, 2)
Date_Zero == StrDate(0, 0, 0)

\* one representative cell per column, for files that vary only their columns
DefaultCells ==
  [name \in ColNames |->
     IF name \in {"admission_date", "death_date", "discharge_date"} THEN {Date_Sep01}
     ELSE IF name = "outcome" THEN {StrText(DEAD)}
     ELSE IF name \in {"age_days", "age", "age_months", "age_years"} THEN {Num(10 * Q)}
     ELSE IF name = "sex"
          THEN {NA, StrText(<< "F" >>), StrText(<< " ", "m", "a", "l", "e" >>),
                StrText(<< "F", "e", "m", "a", "l", "e" >>), StrText(<< "m" >>),
                StrText(Txt_abc)}
     ELSE IF name \in {"primary_diagnosis", "dx"} THEN {NA, StrText(Txt_abc)}
     ELSE {StrText(Txt_abc)}]

\* files that differ in which columns they have
ColumnFiles ==
  UNION {TablesOver(L, DefaultCells, 1) :
           L \in SUBSET {Label("admission_date"), Padded("outcome"),
                         Padded("primary_diagnosis"), Label("death_date"), Label("dx"),
                         Label("sex"), Label("age_months"), Label("patient_id")}}

\* files that differ in which age columns they have, each age cell empty or
\* one number
AgeLabels == {Label("age_days"), Label("age"), Label("age_months"), Label("age_years")}
AgePresenceCells ==
  [name \in ColNames |->
     IF name = "age_days" THEN {NA, Num(10 * Q)}
     ELSE IF name = "age" THEN {NA, Num(40 * Q)}
     ELSE IF name = "age_months" THEN {NA, Num(10 * Q)}
     ELSE IF name = "age_years" THEN {NA, Num(2 * Q)}
     ELSE DefaultCells[name]]
AgePresenceFiles ==
  UNION {TablesOver(L \cup {Label("outcome")}, AgePresenceCells, MaxRows) :
           L \in SUBSET AgeLabels}

\* files with one age column and a wider choice of values: fractions whose
\* product is a tie, negatives, text, and ages on both sides of the bare-age
\* thresholds 30 and 100
AgeValueCells ==
  [name \in ColNames |->
     IF name = "age_days" THEN {NA, Num(10 * Q), Num(Q + 1), StrText(Txt_abc)}
     ELSE IF name = "age"
          THEN {NA, StrText(Txt_abc), Num(1), Num(10 * Q), Num(30 * Q), Num(50 * Q),
                Num(100 * Q), Num(150 * Q)}
     ELSE IF name = "age_months"
          THEN {NA, StrText(Txt_abc), Num(1), Num(3), Num(10 * Q), Num(0 - 2 * Q)}
     ELSE IF name = "age_years"
          THEN {NA, StrText(Txt_abc), Num(2), Num(6), Num(2 * Q), Num(0 - Q)}
     ELSE DefaultCells[name]]
AgeValueFiles ==
  UNION {TablesOver({c, Label("outcome")}, AgeValueCells, MaxRows) : c \in AgeLabels}

\* files with an outcome column only, over a choice of outcome texts
Txt_DEAD == << "D", "E", "A", "D" >>
Txt_alive == << "a", "l", "i", "v", "e" >>
Txt_deceased == << "d", "e", "c", "e", "a", "s", "e", "d" >>
Txt_Dead_sp == << " ", "D", "e", "a", "d", " " >>
Txt_died == << "d", "i", "e", "d" >>
Txt_absconded == << "a", "b", "s", "c", "o", "n", "d", "e", "d" >>
Txt_expired == << "e", "x", "p", "i", "r", "e", "d" >>
Txt_not_dead == << "n", "o", "t", " ", "d", "e", "a", "d" >>
Txt_referred_out == << "R", "E", "F", "E", "R", "R", "E", "D", " ", "o", "u", "t" >>
Txt_survived == << "s", "u", "r", "v", "i", "v", "e", "d" >>
OutcomeTexts ==
  {Txt_DEAD, Txt_alive, Txt_deceased, Txt_Dead_sp, Txt_died, Txt_absconded,
   Txt_expired, Txt_not_dead, Txt_referred_out, Txt_survived}
OutcomeCells ==
  [name \in ColNames |->
     IF name = "outcome" THEN {NA} \cup {StrText(t) : t \in OutcomeTexts}
     ELSE DefaultCells[name]]
OutcomeFiles == TablesOver({Label("outcome")}, OutcomeCells, MaxRows)

\* the scenario of three outcome rows
ScenarioOutcomeFile ==
  DataFrame({Label("outcome")},
            << (Label("outcome") :> StrText(Txt_DEAD)),
               (Label("outcome") :> StrText(Txt_alive)),
               (Label("outcome") :> StrText(Txt_deceased)) >>)

\* files that differ in their date columns and date values
DateCells ==
  [name \in ColNames |->
     IF name \in {"admission_date", "death_date"}
     THEN {NA, Date_Zero, StrDate(2025, 2, 30), Date_Sep01, Date_Oct02}
     ELSE DefaultCells[name]]
DateFiles ==
  UNION {TablesOver(L \cup {Label("outcome")}, DateCells, MaxRows) :
           L \in SUBSET {Label("admission_date"), Label("death_date")}}

\* sample_df as make_sample_csv_bytes writes it: a cell a row's dict lacks
\* is written empty
SampleLabels ==
  {Label(n) : n \in {"patient_id", "initials", "sex", "age_days", "ward",
                     "admission_date", "discharge_date", "outcome", "death_date",
                     "primary_diagnosis", "Notes", "age_months"}}
sample_df ==
  DataFrame(SampleLabels, <<
  [c \in SampleLabels |->
     CASE c.name = "patient_id" -> Num(45991 * Q)
       [] c.name = "initials" -> StrText(<< "J", ".", "M", ".", "M" >>)
       [] c.name = "sex" -> StrText(<< "M" >>)
       [] c.name = "age_days" -> Num(10 * Q)
       [] c.name = "ward" -> StrText(<< "N", "B", "U" >>)
       [] c.name = "admission_date" -> Date_Sep01
       [] c.name = "discharge_date" -> Date_Zero
       [] c.name = "outcome" -> StrText(<< "D", "e", "a", "d" >>)
       [] c.name = "death_date" -> Date_Sep04
       [] c.name = "primary_diagnosis" -> StrText(<< "N", "e", "o", "n", "a", "t", "a", "l", " ", "S", "e", "p", "s", "i", "s" >>)
       [] c.name = "Notes" -> StrText(<< "S", "P", " ", "p", "u", "n", "c", "t", "u", "r", "e", " ", "d", "o", "n", "e" >>)
       [] c.name = "age_months" -> NA],
  [c \in SampleLabels |->
     CASE c.name = "patient_id" -> Num(46781 * Q)
       [] c.name = "initials" -> StrText(<< "D", ".", "S", ".", "J" >>)
       [] c.name = "sex" -> StrText(<< "F" >>)
       [] c.name = "age_days" -> NA
       [] c.name = "ward" -> StrText(<< "P", "e", "d", "i", "a", "t", "r", "i", "c", "s" >>)
       [] c.name = "admission_date" -> StrDate(2025, 9, 2)
       [] c.name = "discharge_date" -> StrDate(2025, 9, 9)
       [] c.name = "outcome" -> StrText(<< "A", "l", "i", "v", "e" >>)
       [] c.name = "death_date" -> Date_Sep04
       [] c.name = "primary_diagnosis" -> StrText(<< "S", "e", "v", "e", "r", "e", " ", "P", "n", "e", "u", "m", "o", "n", "i", "a" >>)
       [] c.name = "Notes" -> StrText(<< "C", "o", "u", "n", "s", "e", "l", "e", "d", " ", "o", "n", " ", "d", "a", "n", "g", "e", "r", " ", "s", "i", "g", "n", "s" >>)
       [] c.name = "age_months" -> Num(10 * Q)] >>)

\* the files validate_and_normalize is checked on
NormFiles ==
  ColumnFiles \cup AgePresenceFiles \cup AgeValueFiles \cup OutcomeFiles
    \cup DateFiles \cup {ScenarioOutcomeFile, sample_df}

NormInputs == {read_csv(f) : f \in NormFiles}

\* ------------------------------------------------------------------ files uploaded in a session
\* The rows the session's files are made of: a neonatal death in September,
\* an October survivor without a patient id, a death recorded as "deceased"
\* whose admission date does not parse.
StoredLabels ==
  {Label(n) : n \in {"patient_id", "admission_date", "death_date", "outcome", "age_days"}}
StoredRow(pid, adm, dth, out, age) ==
  [c \in StoredLabels |->
     CASE c.name = "patient_id" -> pid
       [] c.name = "admission_date" -> adm
       [] c.name = "death_date" -> dth
       [] c.name = "outcome" -> out
       [] c.name = "age_days" -> age]
StoredRows ==
  {StoredRow(Num(Q), Date_Sep01, Date_Sep04, StrText(<< "D", "e", "a", "d" >>), Num(10 * Q)),
   StoredRow(NA, Date_Oct02, NA, StrText(<< "A", "l", "i", "v", "e" >>), Num(400 * Q)),
   StoredRow(Num(3 * Q), Date_Zero, NA, StrText(Txt_deceased), NA)}

\* an uploader left empty
NoFile == [k |-> "nofile"]
\* a file pd.read_csv cannot read
Unreadable == [k |-> "unreadable"]
\* a readable file without any of the minimal columns
NoMinimalFile ==
  DataFrame({Label("patient_id")}, << (Label("patient_id") :> Num(Q)) >>)
\* a readable file with a minimal column but no age, sex, outcome or
\* diagnosis column
DegradedFile ==
  DataFrame({Label("patient_id"), Label("admission_date")},
            << (Label("patient_id") :> Num(2 * Q)) @@ (Label("admission_date") :> Date_Sep01) >>)

SessionFiles ==
  {DataFrame(StoredLabels, rows) :
     rows \in UNION {[1..h -> StoredRows] : h \in 0..MaxStoredRows}}
    \cup {Unreadable, NoMinimalFile, DegradedFile}

\* what Step 1 gets from one uploader: nothing, a table and its
\* normalization, or an exception from pd.read_csv
IngestFile(file) ==
  IF file = NoFile THEN [k |-> "none"]
  ELSE IF file = Unreadable THEN [k |-> "unreadable"]
  ELSE [k |-> "read", result |-> validate_and_normalize(read_csv(file))]

\* the same, computed once per file and looked up
Ingested == {<< file, IngestFile(file) >> : file \in SessionFiles \cup {NoFile}}
Ingest(file) == (CHOOSE p \in Ingested : p[1] = file)[2]

\* ------------------------------------------------------------------ aggregation helpers
\* pd.concat([a, b], ignore_index=True): the union of the columns, a's rows
\* then b's, a cell of a column the row's table lacks being NaN
concat(a, b) ==
  LET cols == a.cols \cup b.cols
      n == Len(a.rows)
  IN  DataFrame(cols,
                [i \in 1..(n + Len(b.rows)) |->
                   LET r == IF i <= n THEN a.rows[i] ELSE b.rows[i - n]
                   IN  [c \in cols |-> IF c \in DOMAIN r THEN r[c] ELSE NA]])

RECURSIVE SetToSeq(_)
SetToSeq(S) ==
  IF S = {} THEN << >>
  ELSE LET x == CHOOSE y \in S : TRUE IN << x >> \o SetToSeq(S \ {x})

\* the distinct month labels of a table whose month column holds str,
\* sorted as Python sorts str
SortedLabels(df) ==
  SortSeq(SetToSeq({df.rows[i]["month"] : i \in DOMAIN df.rows}),
          LAMBDA a, b : StrLess(a.s, b.s))

\* a rate: hundredths of a percent, or what float division by zero gives
NumRate(h) == [k |-> "rate", h |-> h]
InfRate == [k |-> "inf"]
NaNRate == [k |-> "nan"]

\* (deaths / admissions * 100).round(2) on a float column: no guard
Rate(deaths, admissions) ==
  IF admissions = 0 THEN (IF deaths = 0 THEN NaNRate ELSE InfRate)
  ELSE NumRate(RoundHalfEven(deaths * 10000, admissions))

\* (a - b).round(2)
RateDiff(a, b) ==
  IF a.k = "nan" \/ b.k = "nan" THEN NaNRate
  ELSE IF a.k = "inf" THEN (IF b.k = "inf" THEN NaNRate ELSE InfRate)
  ELSE IF b.k = "inf" THEN [k |-> "-inf"]
  ELSE NumRate(a.h - b.h)

\* ------------------------------------------------------------------ Pediatrics app, Step 2
\* lines 32-37: dates parsed again, month = str of the admission month
Step2Dates(df) ==
  DataFrame(df.cols,
            [i \in DOMAIN df.rows |->
               [c \in df.cols |->
                  IF c \in {"admission_date", "death_date"}
                  THEN to_datetime(df.rows[i][c]) ELSE df.rows[i][c]]])

Step2Months(df) ==
  SetCol(Step2Dates(df), "month",
         LAMBDA r : StrText(PeriodAsStr(to_period(to_datetime(r["admission_date"])))))

\* lines 40-46: the death indicator of one row
Step2IsDeath(df, r) ==
  LET x == Lower(AsStr(r["outcome"]))
  IN  \/ Contains(x, dead)
      \/ x = << "d", "e", "a", "t", "h" >>
      \/ ("death_date" \in df.cols /\ notna(to_datetime(r["death_date"])))

\* lines 49-58: one row per month label, sorted by the label
Step2Summary(df) ==
  LET labels == SortedLabels(df)
  IN  [g \in DOMAIN labels |->
         LET rows == {i \in DOMAIN df.rows : df.rows[i]["month"] = labels[g]}
             adm == Cardinality({i \in rows : notna(df.rows[i]["patient_id"])})
             dth == Cardinality({i \in rows : Step2IsDeath(df, df.rows[i])})
         IN  [month |-> labels[g], total_admissions |-> adm, total_deaths |-> dth,
              mortality_rate |-> Rate(dth, adm)]]

\* lines 65-71
Step2Comparison(summary) ==
  IF Len(summary) >= 2
  THEN LET cur == summary[Len(summary)]
           prev == summary[Len(summary) - 1]
       IN  [current_month |-> cur.month, prev_month |-> prev.month,
            diff |-> RateDiff(cur.mortality_rate, prev.mortality_rate)]
  ELSE [k |-> "none"]

\* Step 2 asking for both datasets, as Step 3 does
Step2Page_RequiresBoth(store) ==
  IF store.df_current = NoTable \/ store.df_previous = NoTable
  THEN [page |-> "ped_step2", status |-> "stopped", message |-> "complete Step 1"]
  ELSE LET df_all == concat(store.df_previous, store.df_current)
       IN  IF {"admission_date", "outcome", "patient_id"} \subseteq df_all.cols
           THEN LET summary == Step2Summary(Step2Months(df_all))
                IN  [page |-> "ped_step2", status |-> "done", df_all |-> df_all,
                     summary |-> summary, comparison |-> Step2Comparison(summary)]
           ELSE [page |-> "ped_step2", status |-> "exception", message |-> "KeyError"]

\* the page run against the session store
Step2Page(store) ==
  IF store.df_current = NoTable
  THEN [page |-> "ped_step2", status |-> "stopped", message |-> "complete Step 1"]
  ELSE LET df_all == IF store.df_previous # NoTable
                     THEN concat(store.df_previous, store.df_current)
                     ELSE store.df_current
       IN  IF {"admission_date", "outcome", "patient_id"} \subseteq df_all.cols
           THEN LET summary == Step2Summary(Step2Months(df_all))
                IN  [page |-> "ped_step2", status |-> "done", df_all |-> df_all,
                     summary |-> summary, comparison |-> Step2Comparison(summary)]
           ELSE [page |-> "ped_step2", status |-> "exception", message |-> "KeyError"]

\* ------------------------------------------------------------------ Pediatrics app, Step 3
\* lines 20-28: the date column the month is taken from, None when neither
\* exists
Step3MonthSource(df) ==
  IF "admission_date" \in df.cols THEN "admission_date"
  ELSE IF "death_date" \in df.cols THEN "death_date"
  ELSE None

\* lines 21-22 / 24-25: the date parsed again, month = str of its month
Step3Months(df, src) ==
  SetCol(SetCol(df, src, LAMBDA r : to_datetime(r[src])), "month",
         LAMBDA r : StrText(PeriodAsStr(to_period(to_datetime(r[src])))))

\* lines 31-36: outcome = str, lowercased, stripped
Step3Outcome(df) ==
  IF "outcome" \in df.cols
  THEN SetCol(df, "outcome", LAMBDA r : StrText(Strip(Lower(AsStr(r["outcome"])))))
  ELSE IF "outcome_norm" \in df.cols
  THEN SetCol(df, "outcome", LAMBDA r : StrText(Strip(Lower(AsStr(r["outcome_norm"])))))
  ELSE SetCol(df, "outcome", LAMBDA r : StrText(<< "u", "n", "k", "n", "o", "w", "n" >>))

\* lines 39-42: the death indicator of one row
Step3IsDeath(df, r) ==
  \/ Contains(r["outcome"].s, dead)
  \/ ("death_date" \in df.cols /\ notna(to_datetime(r["death_date"])))

\* lines 58-62: mortality_stats of the rows of one month label
Step3Stats(df, label) ==
  LET sub_df == {i \in DOMAIN df.rows : df.rows[i]["month"] = label}
      total_adm == Cardinality(sub_df)
      total_dead == Cardinality({i \in sub_df : Step3IsDeath(df, df.rows[i])})
  IN  [total_adm |-> total_adm, total_dead |-> total_dead,
       mortality_rate |-> IF total_adm > 0
                          THEN NumRate(RoundHalfEven(total_dead * 10000, total_adm))
                          ELSE NumRate(0)]

\* lines 111-119: the trend table, one row per month label
Step3Trend(df) ==
  LET labels == SortedLabels(df)
  IN  [g \in DOMAIN labels |->
         LET rows == {i \in DOMAIN df.rows : df.rows[i]["month"] = labels[g]}
             adm == Cardinality({i \in rows : notna(df.rows[i]["patient_id"])})
             dth == Cardinality({i \in rows : Step3IsDeath(df, df.rows[i])})
         IN  [month |-> labels[g], Admissions |-> adm, Deaths |-> dth,
              mortality_rate |-> Rate(dth, adm)]]

\* the table the page works on once the month and outcome columns are set
Step3Table(store) ==
  LET df == concat(store.df_previous, store.df_current)
  IN  Step3Outcome(Step3Months(df, Step3MonthSource(df)))

\* the months offered for selection (line 45): the month column holds str,
\* dropna() finds nothing to drop
Step3MonthList(store) == SortedLabels(Step3Table(store))

\* the page run against the session store with the two selectboxes at
\* pick1 and pick2 (positions in the month list)
Step3Page(store, pick1, pick2) ==
  IF store.df_current = NoTable \/ store.df_previous = NoTable
  THEN [page |-> "ped_step3", status |-> "stopped", message |-> "missing datasets"]
  ELSE IF Step3MonthSource(concat(store.df_previous, store.df_current)) = None
  THEN [page |-> "ped_step3", status |-> "stopped", message |-> "missing dates"]
  ELSE LET df == Step3Table(store)
           months == Step3MonthList(store)
       IN  IF Len(months) < 2
           THEN [page |-> "ped_step3", status |-> "insufficient", months |-> months]
           ELSE IF "patient_id" \notin df.cols
           THEN [page |-> "ped_step3", status |-> "exception", message |-> "KeyError",
                 months |-> months]
           ELSE [page |-> "ped_step3", status |-> "done", months |-> months,
                 month1 |-> months[pick1], month2 |-> months[pick2],
                 stats1 |-> Step3Stats(df, months[pick1]),
                 stats2 |-> Step3Stats(df, months[pick2]),
                 trend |-> Step3Trend(df)]

\* ------------------------------------------------------------------ Pediatrics app, Step 4
\* lines 11-20: the table the page works on, NoTable when the page stops
Step4Load(store) ==
  IF store.df_previous # NoTable /\ store.df_current # NoTable
  THEN concat(store.df_previous, store.df_current)
  ELSE store.df_current

\* the outcome column of lines 23-27 (Step 4 of both apps), None when absent
outcome_col(df) == col_exists_any(df, << "outcome_norm", "outcome" >>)

\* line 32 (and the same line of the adult Step 3 and Step 4):
\* df[outcome_col] = df[outcome_col].astype(str).str.lower(), the first
\* assignment into the page's table; nothing is assigned when the page has
\* stopped for want of the column
LowerOutcome(df, col) ==
  IF col = None THEN df
  ELSE SetCol(df, col, LAMBDA r : StrText(Lower(AsStr(r[col]))))

\* lines 44-51: compute_age_days of one row; row.get of an absent column is
\* None
compute_age_days(df, r) ==
  IF "age_days" \in df.cols /\ notna(r["age_days"]) THEN r["age_days"]
  ELSE IF "age_months" \in df.cols /\ notna(r["age_months"])
  THEN (IF r["age_months"].k = "num" THEN Num(r["age_months"].q * 30) ELSE r["age_months"])
  ELSE IF "age_years" \in df.cols /\ notna(r["age_years"])
  THEN (IF r["age_years"].k = "num" THEN Num(r["age_years"].q * 365) ELSE r["age_years"])
  ELSE NA

\* the labels of lines 88-93 and 97; "--" stands for the en dash of the
\* source
age_group_labels ==
  << "<1 month", "1--11 months", "1--4 years", "5--14 years", "15+ years", "Unknown" >>

\* age_group with the first boundary inclusive: 30 days still "<1 month"
age_group_InclusiveFirst(d) ==
  IF isna(d) THEN age_group_labels[6]
  ELSE IF d.q <= 30 * Q THEN age_group_labels[1]
  ELSE IF d.q < 365 * Q THEN age_group_labels[2]
  ELSE IF d.q < 5 * 365 * Q THEN age_group_labels[3]
  ELSE IF d.q < 15 * 365 * Q THEN age_group_labels[4]
  ELSE age_group_labels[5]

\* lines 87-93: age_group(days), days a number or NaN
age_group(d) ==
  IF isna(d) THEN age_group_labels[6]
  ELSE IF d.q < 30 * Q THEN age_group_labels[1]
  ELSE IF d.q < 365 * Q THEN age_group_labels[2]
  ELSE IF d.q < 5 * 365 * Q THEN age_group_labels[3]
  ELSE IF d.q < 15 * 365 * Q THEN age_group_labels[4]
  ELSE age_group_labels[5]

\* line 82: the rows whose outcome column, as lowercased str, is "dead"
DeathRows(df, col) ==
  {i \in DOMAIN df.rows : Lower(AsStr(df.rows[i][col])) = dead}

\* the subsequence of seq whose elements satisfy Keep, in order
RECURSIVE SelectIn(_, _)
SelectIn(seq, keep) ==
  IF seq = << >> THEN << >>
  ELSE (IF Head(seq) \in keep THEN << Head(seq) >> ELSE << >>) \o SelectIn(Tail(seq), keep)

\* lines 95-99: value_counts().reindex(labels).dropna(): the labels that
\* occur among the deaths, in the order of the list, each with its count
age_counts(df, deaths) ==
  LET group(i) == age_group(compute_age_days(df, df.rows[i]))
      present == SelectIn(age_group_labels, {group(i) : i \in deaths})
  IN  [g \in DOMAIN present |->
         [age_group |-> present[g],
          deaths |-> Cardinality({i \in deaths : group(i) = present[g]})]]

\* the page run against the session store
Step4Page(store) ==
  IF store.df_current = NoTable
  THEN [page |-> "ped_step4", status |-> "stopped", message |-> "no clean data"]
  ELSE LET df == Step4Load(store)
           col == outcome_col(df)
       IN  IF col = None
           THEN [page |-> "ped_step4", status |-> "stopped", message |-> "no outcome column"]
           ELSE IF "month" \in df.cols /\ df.rows = << >>
           THEN [page |-> "ped_step4", status |-> "exception", message |-> "IndexError"]
           ELSE LET deaths == DeathRows(df, col)
                IN  IF \E i \in deaths : compute_age_days(df, df.rows[i]).k = "str"
                    THEN [page |-> "ped_step4", status |-> "exception",
                          message |-> "TypeError"]
                    ELSE [page |-> "ped_step4", status |-> "done", outcome_col |-> col,
                          deaths |-> Cardinality(deaths),
                          no_mortality_info |-> (deaths = {}),
                          age_counts |-> age_counts(df, deaths)]

\* ------------------------------------------------------------------ Adult app, Step 3
\* The adult app's pages read the same store keys; its upload page is not
\* among the sources, the store is the one Step 1 fills.

\* lines 20-21: the month column becomes str when its first cell is a
\* Period, and is left alone otherwise
AdultMonths(df) ==
  IF df.rows[1]["month"].k = "period"
  THEN SetCol(df, "month", LAMBDA r : StrText(PeriodAsStr(r["month"])))
  ELSE df

\* a month key before another: str as Python compares str, Periods by time
MonthLess(a, b) ==
  IF a.k = "str" THEN StrLess(a.s, b.s)
  ELSE a.y < b.y \/ (a.y = b.y /\ a.m < b.m)

\* line 40: sorted(df["month"].dropna().unique())
AdultMonthList(df) ==
  SortSeq(SetToSeq({df.rows[i]["month"] : i \in DOMAIN df.rows} \ {NA}), MonthLess)

\* the outcome column of lines 24-28, None when absent
AdultStep3OutcomeCol(df) == col_exists_any(df, << "outcome", "outcome_norm" >>)

RECURSIVE GCD(_, _)
GCD(a, b) == IF b = 0 THEN a ELSE GCD(b, a % b)

\* a rate that is not rounded: the fraction num/den in lowest terms
ExactRate(num, den) ==
  [k |-> "exact", num |-> num \div GCD(num, den), den |-> den \div GCD(num, den)]

\* lines 54-58: mortality_stats of the rows of one month
AdultStats(df, col, month) ==
  LET sub_df == {i \in DOMAIN df.rows : df.rows[i]["month"] = month}
      total_adm == Cardinality(sub_df)
      total_dead == Cardinality({i \in sub_df : Lower(AsStr(df.rows[i][col])) = dead})
  IN  [total_adm |-> total_adm, total_dead |-> total_dead,
       mortality_rate |-> IF total_adm > 0 THEN ExactRate(total_dead * 100, total_adm)
                          ELSE ExactRate(0, 1)]

\* lines 107-115: the trend table, one row per non-null month key
AdultTrend(df, col) ==
  LET keys == AdultMonthList(df)
  IN  [g \in DOMAIN keys |->
         LET x == {i \in DOMAIN df.rows : df.rows[i]["month"] = keys[g]}
         IN  [month |-> keys[g], Admissions |-> Cardinality(x),
              Deaths |-> Cardinality({i \in x : Lower(AsStr(df.rows[i][col])) = dead}),
              mortality_rate |->
                IF Cardinality(x) > 0
                THEN ExactRate(100 * Cardinality({i \in x :
                                 Contains(Lower(AsStr(df.rows[i][col])), dead)}),
                               Cardinality(x))
                ELSE ExactRate(0, 1)]]

\* the page run against the session store with the two selectboxes at
\* pick1 and pick2
AdultStep3Page(store, pick1, pick2) ==
  IF store.df_current = NoTable
  THEN [page |-> "adult_step3", status |-> "stopped", message |-> "no clean dataset"]
  ELSE IF "month" \notin store.df_current.cols
  THEN [page |-> "adult_step3", status |-> "stopped", message |-> "no month column"]
  ELSE IF store.df_current.rows = << >>
  THEN [page |-> "adult_step3", status |-> "exception", message |-> "IndexError"]
  ELSE LET df == AdultMonths(store.df_current)
           col == AdultStep3OutcomeCol(df)
           months == AdultMonthList(df)
       IN  IF col = None
           THEN [page |-> "adult_step3", status |-> "stopped",
                 message |-> "no outcome column"]
           ELSE IF Len(months) < 2
           THEN [page |-> "adult_step3", status |-> "insufficient", months |-> months]
           ELSE [page |-> "adult_step3", status |-> "done", months |-> months,
                 month1 |-> months[pick1], month2 |-> months[pick2],
                 stats1 |-> AdultStats(df, col, months[pick1]),
                 stats2 |-> AdultStats(df, col, months[pick2]),
                 trend |-> AdultTrend(df, col)]

\* the positions a selectbox of the adult Step 3 can be at
AdultStep3Picks(store) ==
  IF /\ store.df_current # NoTable
     /\ "month" \in store.df_current.cols
     /\ store.df_current.rows # << >>
     /\ Len(AdultMonthList(AdultMonths(store.df_current))) >= 2
  THEN DOMAIN AdultMonthList(AdultMonths(store.df_current))
  ELSE {1}

\* ------------------------------------------------------------------ Adult app, Step 4
\* lines 67-73: age_group(days) with the adult app's labels
adult_age_group(d) ==
  IF isna(d) THEN "Unknown"
  ELSE IF d.q < 30 * Q THEN "<1 month"
  ELSE IF d.q < 365 * Q THEN "1-11 months"
  ELSE IF d.q < 5 * 365 * Q THEN "1-4 years"
  ELSE IF d.q < 15 * 365 * Q THEN "5-14 years"
  ELSE "15+ years"

\* lines 75-77: value_counts(): the groups that occur among the deaths, the
\* most frequent first, groups of equal count in order of first occurrence
adult_age_counts(df, deaths) ==
  LET group(i) == adult_age_group(df.rows[i]["age_days"])
      count(g) == Cardinality({i \in deaths : group(i) = g})
      first(g) == CHOOSE i \in deaths : group(i) = g /\ \A j \in deaths : group(j) = g => i <= j
      order == SortSeq(SetToSeq({group(i) : i \in deaths}),
                       LAMBDA a, b : count(a) > count(b)
                                       \/ (count(a) = count(b) /\ first(a) < first(b)))
  IN  [g \in DOMAIN order |-> [age_group |-> order[g], deaths |-> count(order[g])]]

\* the page run against the session store; no source sets df_clean or
\* chosen_month, so lines 9-10 and 32-37 never run
AdultStep4Page(store) ==
  IF store.df_current = NoTable
  THEN [page |-> "adult_step4", status |-> "stopped", message |-> "no clean data"]
  ELSE LET df == store.df_current
           col == outcome_col(df)
       IN  IF col = None
           THEN [page |-> "adult_step4", status |-> "stopped",
                 message |-> "no outcome column"]
           ELSE IF "age_days" \notin df.cols
           THEN [page |-> "adult_step4", status |-> "done", outcome_col |-> col,
                 age_days_missing |-> TRUE]
           ELSE LET deaths == DeathRows(df, col)
                IN  IF \E i \in deaths : df.rows[i]["age_days"].k = "str"
                    THEN [page |-> "adult_step4", status |-> "exception",
                          message |-> "TypeError"]
                    ELSE [page |-> "adult_step4", status |-> "done", outcome_col |-> col,
                          age_days_missing |-> FALSE,
                          deaths |-> Cardinality(deaths),
                          no_mortality_info |-> (deaths = {}),
                          age_counts |-> adult_age_counts(df, deaths)]

\* ------------------------------------------------------------------ copies
\* a table shared with the code that assigns into it: the caller's table
\* becomes the assigned one
AfterCopy_Aliased(original, assigned) == assigned

\* DataFrame.copy() (Step 1 line 74, the pages' reads of the store): the code
\* assigns into the copy, a separate object, so the table it was given is
\* afterwards what it was before
AfterCopy(original, assigned) == original

\* ------------------------------------------------------------------ state
VARIABLES
  raw,      \* the table handed to validate_and_normalize
  norm,     \* what validate_and_normalize returned for it, NoTable before the call
  session,  \* st.session_state: df_current and df_previous, NoTable when the key is absent
  page,     \* what the last page run showed and computed
  days,     \* the age_days value handed to age_group
  bucket    \* the label age_group returned for it, NoBucket before the call

vars == << raw, norm, session, page, days, bucket >>

NoPage == [page |-> "none"]
NoBucket == [app |-> "none"]
EmptySession == [df_current |-> NoTable, df_previous |-> NoTable]

\* ------------------------------------------------------------------ the normalizer, run on one table
InitNorm ==
  /\ raw \in NormInputs
  /\ norm = NoTable
  /\ session = EmptySession
  /\ page = NoPage
  /\ days = NA
  /\ bucket = NoBucket

\* one call; line 74 copies the table before the first assignment (the
\* trimmed labels of line 75), so the caller keeps its table
Normalize ==
  /\ raw # NoTable
  /\ norm = NoTable
  /\ norm' = validate_and_normalize(raw)
  /\ raw' = AfterCopy(raw, IF norm'.df = NoTable THEN TrimColumns(raw) ELSE norm'.df)
  /\ UNCHANGED << session, page, days, bucket >>

SpecNorm == InitNorm /\ [][Normalize]_vars

\* ------------------------------------------------------------------ age_group, run on one value
\* the days on each side of a bucket boundary that the inputs cover
Window == 2

\* the values age_group is given: NaN, and the ages from 0 and around each
\* number of lines 89-92 in steps of 1/Q day
AgeInputs ==
  {NA} \cup {Num(q) : q \in 0 .. Window * Q}
       \cup UNION {{Num(q) : q \in (b - Window) * Q .. (b + Window) * Q} :
                     b \in {30, 365, 5 * 365, 15 * 365}}

InitAge ==
  /\ raw = NoTable
  /\ norm = NoTable
  /\ session = EmptySession
  /\ page = NoPage
  /\ days \in AgeInputs
  /\ bucket = NoBucket

\* Pediatrics Step 4, line 95: deaths_df["age_days"].apply(age_group), one value
AgeGroup ==
  /\ bucket = NoBucket
  /\ bucket' = [app |-> "pediatrics", age_group |-> age_group(days)]
  /\ UNCHANGED << raw, norm, session, page, days >>

\* Adult Step 4, line 75: the same call of the adult page's age_group
AdultAgeGroup ==
  /\ bucket = NoBucket
  /\ bucket' = [app |-> "adult", age_group |-> adult_age_group(days)]
  /\ UNCHANGED << raw, norm, session, page, days >>

SpecAge == InitAge /\ [][AgeGroup \/ AdultAgeGroup]_vars

\* ------------------------------------------------------------------ a session of page runs
Init ==
  /\ raw = NoTable
  /\ norm = NoTable
  /\ session = EmptySession
  /\ page = NoPage
  /\ days = NA
  /\ bucket = NoBucket

\* what one uploader block shows
UploadStatus(got) ==
  IF got.k # "read" THEN got.k
  ELSE IF got.result.errors # << >> THEN "invalid" ELSE "validated"

\* a slot assigned whatever the call returned, None on a validation failure
Stored_IgnoringErrors(old, got, auto_store) ==
  IF got.k = "read" /\ auto_store THEN got.result.df ELSE old

\* the value a slot of the store has after its uploader block
Stored(old, got, auto_store) ==
  IF got.k = "read" /\ got.result.errors = << >> /\ auto_store
  THEN got.result.df ELSE old

\* Pediatrics Step 1, lines 157-222: one run of the upload page with the two
\* uploaders and the auto-store checkbox as the user has set them; warnings
\* and warnings_prev are the lists the two calls returned (lines 185, 205),
\* warnings_shown what the page writes of them: no statement after the calls
\* reads either list
Step1(uploaded_current, uploaded_previous, auto_store) ==
  LET cur == Ingest(uploaded_current)
      prev == Ingest(uploaded_previous)
  IN  /\ session' = [df_current |-> Stored(session.df_current, cur, auto_store),
                     df_previous |-> Stored(session.df_previous, prev, auto_store)]
      /\ page' = [page |-> "ped_step1",
                  current |-> UploadStatus(cur),
                  previous |-> UploadStatus(prev),
                  errors |-> (IF cur.k = "read" THEN cur.result.errors ELSE << >>)
                               \o (IF prev.k = "read" THEN prev.result.errors ELSE << >>),
                  auto_store |-> auto_store,
                  warnings |-> IF cur.k = "read" THEN cur.result.warnings ELSE << >>,
                  warnings_prev |-> IF prev.k = "read" THEN prev.result.warnings ELSE << >>,
                  warnings_shown |-> << >>,
                  stored_note |-> session'.df_current # NoTable]
      /\ UNCHANGED << raw, norm, days, bucket >>

\* Pediatrics Step 2: line 27 builds a new table from the two stored ones,
\* line 29 copies the current one; lines 32-34 assign into the result
Step2 ==
  /\ page' = Step2Page(session)
  /\ session' = IF session.df_current # NoTable /\ session.df_previous = NoTable
                THEN [session EXCEPT !.df_current = AfterCopy(@, Step2Dates(@))]
                ELSE session
  /\ UNCHANGED << raw, norm, days, bucket >>

\* the positions a selectbox of Step 3 can be at: it is drawn only when the
\* page gets to line 51
Step3Picks(store) ==
  IF store.df_current # NoTable /\ store.df_previous # NoTable
  THEN (IF Step3MonthSource(concat(store.df_previous, store.df_current)) # None
           /\ Len(Step3MonthList(store)) >= 2
        THEN DOMAIN Step3MonthList(store) ELSE {1})
  ELSE {1}

\* Pediatrics Step 3 with the selectboxes left at their defaults or moved
\* lines 13-16: the page assigns only into the concatenation of the two
\* copies
Step3 ==
  \E pick1 \in Step3Picks(session), pick2 \in Step3Picks(session) :
    /\ page' = Step3Page(session, pick1, pick2)
    /\ UNCHANGED << raw, norm, session, days, bucket >>

\* Pediatrics Step 4: lines 12-14 concatenate copies, line 17 copies the
\* current table; line 32 assigns into the result
Step4 ==
  /\ page' = Step4Page(session)
  /\ session' = IF session.df_current # NoTable /\ session.df_previous = NoTable
                THEN [session EXCEPT
                        !.df_current = AfterCopy(@, LowerOutcome(@, outcome_col(@)))]
                ELSE session
  /\ UNCHANGED << raw, norm, days, bucket >>

\* Adult Step 3: line 13 copies the current table; lines 20-21 and 32 assign
\* into the copy when the page gets that far
AdultStep3 ==
  \E pick1 \in AdultStep3Picks(session), pick2 \in AdultStep3Picks(session) :
    /\ page' = AdultStep3Page(session, pick1, pick2)
    /\ session' = IF page'.status \in {"stopped", "exception"}
                  THEN session
                  ELSE [session EXCEPT
                          !.df_current =
                             AfterCopy(@, LowerOutcome(AdultMonths(@), AdultStep3OutcomeCol(@)))]
    /\ UNCHANGED << raw, norm, days, bucket >>

\* Adult Step 4: line 12 copies the current table; line 29 assigns into the
\* copy
AdultStep4 ==
  /\ page' = AdultStep4Page(session)
  /\ session' = IF session.df_current = NoTable
                THEN session
                ELSE [session EXCEPT
                        !.df_current = AfterCopy(@, LowerOutcome(@, outcome_col(@)))]
  /\ UNCHANGED << raw, norm, days, bucket >>

\* the previous-month uploader is given the files of at most MaxPreviousRows
\* rows
Next ==
  \/ \E uc \in SessionFiles \cup {NoFile},
        up \in {f \in SessionFiles \cup {NoFile} :
                  IF "rows" \in DOMAIN f THEN Len(f.rows) <= MaxPreviousRows ELSE TRUE},
        a \in BOOLEAN :
       Step1(uc, up, a)
  \/ Step2
  \/ Step3
  \/ Step4
  \/ AdultStep3
  \/ AdultStep4

Spec == Init /\ [][Next]_vars

\* ------------------------------------------------------------------ the normalizer and the pages together
\* a behaviour is one call of the normalizer on a table, or a session
SpecAll == (InitNorm \/ Init) /\ [][Normalize \/ (raw = NoTable /\ Next)]_vars

\* ------------------------------------------------------------------ claims
\* what the claims read of the call: the raw table by trimmed column name,
\* and the returned table
Returned == norm # NoTable
ReturnedTable == norm # NoTable /\ norm.df # NoTable
RawHas(n) == \E c \in raw.cols : c.name = n
RawCell(i, n) == raw.rows[i][CHOOSE c \in raw.cols : c.name = n]
RawRows == DOMAIN raw.rows
OutCell(i, n) == norm.df.rows[i][n]
IsNumeric(c) == c.k = "num" \/ (c.k = "str" /\ c.t = "num")
Abs(x) == IF x < 0 THEN 0 - x ELSE x

RawHasMinimal ==
  RawHas("admission_date") \/ RawHas("outcome") \/ RawHas("primary_diagnosis")

\* C1: validate_and_normalize returns a fatal error and no table exactly when
\* the trimmed column names contain none of admission_date, outcome,
\* primary_diagnosis; otherwise it returns a table and no error.
C1_FatalIffNoMinimal ==
  Returned =>
    /\ (~RawHasMinimal => norm.df = NoTable /\ norm.errors # << >>)
    /\ (RawHasMinimal => norm.df # NoTable /\ norm.errors = << >>)

\* a table whose only minimal column is " outcome " with surrounding
\* whitespace is accepted
C1_Witness ==
  /\ ReturnedTable
  /\ \E c \in raw.cols : c.pad /\ c.name = "outcome"
  /\ ~\E c \in raw.cols :
        ~c.pad /\ c.name \in {"admission_date", "outcome", "primary_diagnosis"}

LiteralMatch(x) == x \in {dead, alive}

\* C2 as stated: the rows DEAD, alive, deceased normalize to Dead, Alive,
\* Deceased, and an outcome text that is not literally dead or alive is never
\* normalized to Dead but passed through title-cased.
C2_Original ==
  ReturnedTable /\ RawHas("outcome") =>
    /\ raw = read_csv(ScenarioOutcomeFile) =>
         Column(norm.df, "outcome_norm")
           = << StrText(DEAD), StrText(ALIVE), StrText(<< "D", "e", "c", "e", "a", "s", "e", "d" >>) >>
    /\ \A i \in RawRows :
         LET x == Lower(Strip(AsStr(RawCell(i, "outcome"))))
         IN  ~LiteralMatch(x) =>
               /\ OutCell(i, "outcome_norm") # StrText(DEAD)
               /\ OutCell(i, "outcome_norm") = StrText(Title(x))

\* what each outcome text of the input files is to come out as
ExpectedOutcome(t) ==
  CASE t = Txt_DEAD -> << "D", "e", "a", "d" >>
    [] t = Txt_alive -> << "A", "l", "i", "v", "e" >>
    [] t = Txt_deceased -> << "D", "e", "a", "d" >>
    [] t = Txt_Dead_sp -> << "D", "e", "a", "d" >>
    [] t = Txt_died -> << "D", "e", "a", "d" >>
    [] t = Txt_absconded -> << "A", "l", "i", "v", "e" >>
    [] t = Txt_expired -> << "E", "x", "p", "i", "r", "e", "d" >>
    [] t = Txt_not_dead -> << "D", "e", "a", "d" >>
    [] t = Txt_referred_out -> << "R", "e", "f", "e", "r", "r", "e", "d", " ", "O", "u", "t" >>
    [] t = Txt_survived -> << "S", "u", "r", "v", "i", "v", "e", "d" >>

\* C2 as amended: DEAD, alive, deceased normalize to Dead, Alive, Dead.  A
\* text is normalized to Dead exactly when, stripped and lower-cased, it
\* contains "dead" or starts with "d"; otherwise to Alive exactly when it
\* contains "alive" or starts with "a"; only the remaining texts are passed
\* through title-cased (expired -> Expired).
C2_OutcomeByPrefixOrSubstring ==
  ReturnedTable /\ RawHas("outcome") =>
    /\ raw = read_csv(ScenarioOutcomeFile) =>
         Column(norm.df, "outcome_norm")
           = << StrText(DEAD), StrText(ALIVE), StrText(DEAD) >>
    /\ \A i \in RawRows :
         LET c == RawCell(i, "outcome")
             x == Lower(Strip(AsStr(c)))
             isDead == Contains(x, dead) \/ (x # << >> /\ x[1] = "d")
             isAlive == Contains(x, alive) \/ (x # << >> /\ x[1] = "a")
             o == OutCell(i, "outcome_norm")
         IN  /\ (o = StrText(DEAD)) <=> isDead
             /\ ~isDead => ((o = StrText(ALIVE)) <=> isAlive)
             /\ ~isDead /\ ~isAlive => o = StrText(Title(x))
             /\ c.k = "str" /\ c.t = "text" /\ c.s \in OutcomeTexts =>
                  o = StrText(ExpectedOutcome(c.s))

\* the scenario's third row, deceased, has come out as Dead
C2_Witness ==
  /\ ReturnedTable
  /\ raw = read_csv(ScenarioOutcomeFile)
  /\ OutCell(3, "outcome_norm") = StrText(DEAD)

\* the cell is the whole number nearest to factor * (q/Q), a tie going to
\* the even neighbour
IsRounded(cell, q, factor) ==
  /\ cell.k = "num"
  /\ cell.q % Q = 0
  /\ LET d == cell.q \div Q
         err2 == 2 * Abs(Q * d - factor * q)
     IN  /\ err2 <= Q
         /\ err2 = Q => d % 2 = 0

NumberOf(c) == c.q

NumericAgeRows == {i \in RawRows : IsNumeric(RawCell(i, "age"))}

\* the k-th smallest of the numeric bare ages
KthAge(k) ==
  LET q(i) == NumberOf(RawCell(i, "age"))
      i0 == CHOOSE i \in NumericAgeRows :
              /\ Cardinality({j \in NumericAgeRows : q(j) < q(i)}) < k
              /\ k <= Cardinality({j \in NumericAgeRows : q(j) <= q(i)})
  IN  q(i0)

\* twice the median of the numeric bare ages
TwiceMedianAge ==
  LET n == Cardinality(NumericAgeRows)
  IN  KthAge((n + 1) \div 2) + KthAge(n \div 2 + 1)

\* C8: age_days comes from one source column per table, chosen by the
\* precedence age_days > age > age_months > age_years; a lower column is read
\* only when no higher column is present; a bare age column is scaled by its
\* median over the table: at most 30 -> days, below 100 -> months * 30,
\* otherwise years * 365.
C8_Precedence ==
  ReturnedTable =>
    IF RawHas("age_days")
    THEN \A i \in RawRows : OutCell(i, "age_days") = RawCell(i, "age_days")
    ELSE IF RawHas("age")
    THEN IF NumericAgeRows = {}
         THEN "age_days" \notin norm.df.cols
         ELSE /\ "age_days" \in norm.df.cols
              /\ \A i \in RawRows :
                   LET c == RawCell(i, "age")
                       o == OutCell(i, "age_days")
                   IN  IF ~IsNumeric(c) THEN o = NA
                       ELSE IF TwiceMedianAge <= 60 * Q THEN o = Num(NumberOf(c))
                       ELSE IF TwiceMedianAge < 200 * Q THEN IsRounded(o, NumberOf(c), 30)
                       ELSE IsRounded(o, NumberOf(c), 365)
    ELSE IF RawHas("age_months")
    THEN /\ "age_days" \in norm.df.cols
         /\ \A i \in RawRows :
              LET c == RawCell(i, "age_months")
              IN  IF IsNumeric(c) THEN IsRounded(OutCell(i, "age_days"), NumberOf(c), 30)
                  ELSE OutCell(i, "age_days") = NA
    ELSE IF RawHas("age_years")
    THEN /\ "age_days" \in norm.df.cols
         /\ \A i \in RawRows :
              LET c == RawCell(i, "age_years")
              IN  IF IsNumeric(c) THEN IsRounded(OutCell(i, "age_days"), NumberOf(c), 365)
                  ELSE OutCell(i, "age_days") = NA
    ELSE "age_days" \notin norm.df.cols

\* a table with a bare age column whose median lies in the months range and
\* with an age_months column too: age_days is 30 times the bare age, not the
\* age_months value
C8_Witness ==
  /\ ReturnedTable
  /\ RawHas("age") /\ RawHas("age_months") /\ ~RawHas("age_days")
  /\ NumericAgeRows # {}
  /\ TwiceMedianAge > 60 * Q /\ TwiceMedianAge < 200 * Q
  /\ \E i \in NumericAgeRows :
       /\ IsNumeric(RawCell(i, "age_months"))
       /\ NumberOf(RawCell(i, "age_months")) # NumberOf(RawCell(i, "age"))
       /\ OutCell(i, "age_days") = Num(30 * NumberOf(RawCell(i, "age")))

\* the raw cell is the text of a date that exists
Parses(c) == c.k = "str" /\ c.t = "date" /\ ValidDate(c.y, c.m, c.d)
SomeParses(n) == RawHas(n) /\ \E i \in RawRows : Parses(RawCell(i, n))

\* C9: the month anchor is chosen once per table: admission_date if any of
\* its values parses, else death_date if any of its values parses, else no
\* anchor, in which case every month is unknown and a warning is returned;
\* with an anchor, a row's month is the calendar month of that row's anchor
\* value, unknown when that value does not parse.
C9_MonthAnchor ==
  ReturnedTable =>
    LET anchor == IF SomeParses("admission_date") THEN "admission_date"
                  ELSE IF SomeParses("death_date") THEN "death_date"
                  ELSE None
    IN  /\ norm.date_for_month = anchor
        /\ (WarnMonth \in Range(norm.warnings)) <=> (anchor = None)
        /\ \A i \in RawRows :
             IF anchor # None /\ Parses(RawCell(i, anchor))
             THEN OutCell(i, "month")
                    = Period(RawCell(i, anchor).y, RawCell(i, anchor).m)
             ELSE OutCell(i, "month") = NA

\* a table whose admission_date column holds no date that parses is anchored
\* on death_date, and a row has got its month from it
C9_Witness ==
  /\ ReturnedTable
  /\ RawHas("admission_date") /\ ~SomeParses("admission_date")
  /\ norm.date_for_month = "death_date"
  /\ \E i \in RawRows : OutCell(i, "month") = Period(2025, 10)

\* ------------------------------------------------------------------ claims about the returned table
\* the cell holds a value, real or placeholder
Populated(c) == c.k = "str"

\* C11: in every returned table every record has sex_norm, outcome_norm and
\* primary_diagnosis populated (never missing), and sex_norm is one of M, F,
\* Unknown.
C11_NormColumnsPopulated ==
  ReturnedTable =>
    /\ {"sex_norm", "outcome_norm", "primary_diagnosis"} \subseteq norm.df.cols
    /\ \A i \in RawRows :
         /\ Populated(OutCell(i, "sex_norm"))
         /\ Populated(OutCell(i, "outcome_norm"))
         /\ Populated(OutCell(i, "primary_diagnosis"))
         /\ OutCell(i, "sex_norm") \in
              {StrText(<< "M" >>), StrText(<< "F" >>),
               StrText(<< "U", "n", "k", "n", "o", "w", "n" >>)}

\* C17: in every returned table age_days of every record is unknown or a
\* non-negative integer.
C17_AgeDaysNonNegativeInteger ==
  ReturnedTable /\ "age_days" \in norm.df.cols =>
    \A i \in RawRows :
      LET c == OutCell(i, "age_days")
      IN  isna(c) \/ (c.k = "num" /\ c.q >= 0 /\ c.q % Q = 0)

\* ------------------------------------------------------------------ claims about age_group
\* the six buckets in the spelling of each page
BucketLabels(app) ==
  IF app = "pediatrics"
  THEN << "<1 month", "1--11 months", "1--4 years", "5--14 years", "15+ years", "Unknown" >>
  ELSE << "<1 month", "1-11 months", "1-4 years", "5-14 years", "15+ years", "Unknown" >>

\* the days (in units of 1/Q) from which each of the first five buckets starts
BucketStart == << 0, 30 * Q, 365 * Q, 1825 * Q, 5475 * Q >>

\* the value lies in bucket b
InBucket(c, b) ==
  IF b = 6 THEN isna(c)
  ELSE /\ notna(c)
       /\ BucketStart[b] <= c.q
       /\ (b < 5 => c.q < BucketStart[b + 1])

\* C12: age_group maps the unknown value and every age_days value from 0 on to
\* exactly one of the six fixed buckets, with 30, 365, 1825 and 5475 days
\* starting the buckets 1-11 months, 1-4 years, 5-14 years and 15+ years, and a
\* missing age giving Unknown.
C12_AgeGroupPartition ==
  bucket # NoBucket =>
    \E b \in 1 .. 6 :
      /\ bucket.age_group = BucketLabels(bucket.app)[b]
      /\ InBucket(days, b)
      /\ \A other \in (1 .. 6) \ {b} : ~InBucket(days, other)

\* a boundary case: exactly 30 days is classified 1-11 months by the
\* Pediatrics page
C12_Witness ==
  /\ bucket # NoBucket
  /\ bucket.app = "pediatrics"
  /\ days = Num(30 * Q)
  /\ bucket.age_group = "1--11 months"

\* ------------------------------------------------------------------ claims about the analysis pages
\* the records of the stored datasets, previous then current
StoredRecords ==
  (IF session.df_previous # NoTable THEN session.df_previous.rows ELSE << >>)
    \o (IF session.df_current # NoTable THEN session.df_current.rows ELSE << >>)

\* the calendar month a record was admitted in, NA when the date is unknown
AdmissionMonth(r) ==
  IF "admission_date" \in DOMAIN r THEN to_period(to_datetime(r["admission_date"])) ELSE NA

\* the calendar months the stored datasets hold in their month column
StoredMonths ==
  {StoredRecords[i]["month"] : i \in DOMAIN StoredRecords} \ {NA}

\* a calendar month as the label pages show it
MonthLabel(p) == StrText(AsStr(p))

Step2Done == page.page = "ped_step2" /\ page.status = "done"

\* C3: in the Step 2 monthly summary, every month row's admission count is
\* the number of stored records (previous and current) of that month, and
\* its rate is deaths/admissions x 100 rounded to two decimals.
C3_AdmissionsAreRecords ==
  Step2Done =>
    \A g \in DOMAIN page.summary :
      LET row == page.summary[g]
          records == {i \in DOMAIN StoredRecords :
                        MonthLabel(AdmissionMonth(StoredRecords[i])) = row.month}
      IN  records # {} =>
            /\ row.total_admissions = Cardinality(records)
            /\ row.total_admissions > 0 =>
                 row.mortality_rate =
                   NumRate(RoundHalfEven(row.total_deaths * 10000, row.total_admissions))

\* C4: every rate the pages compute (Step 2 summary and comparison, Step 3
\* mortality_stats and trend) is 0 when its admission count is 0, and is
\* never infinite or undefined.
C4_ZeroAdmissionsGiveRateZero ==
  /\ Step2Done =>
       /\ \A g \in DOMAIN page.summary :
            /\ page.summary[g].mortality_rate.k = "rate"
            /\ page.summary[g].total_admissions = 0 =>
                 page.summary[g].mortality_rate = NumRate(0)
       /\ page.comparison # [k |-> "none"] => page.comparison.diff.k = "rate"
  /\ page.page = "ped_step3" /\ page.status = "done" =>
       /\ \A s \in {page.stats1, page.stats2} :
            /\ s.mortality_rate.k = "rate"
            /\ s.total_adm = 0 => s.mortality_rate = NumRate(0)
       /\ \A g \in DOMAIN page.trend :
            /\ page.trend[g].mortality_rate.k = "rate"
            /\ page.trend[g].Admissions = 0 => page.trend[g].mortality_rate = NumRate(0)

\* the calendar months of the records Step 3 compares: the pediatrics page
\* reads the admission dates of both datasets, the adult page the month
\* column of the current one
ComparedMonths ==
  IF page.page = "ped_step3"
  THEN {AdmissionMonth(StoredRecords[i]) : i \in DOMAIN StoredRecords} \ {NA}
  ELSE {session.df_current.rows[i]["month"] : i \in DOMAIN session.df_current.rows} \ {NA}

\* C5: Step 3, run on records that fall in one distinct calendar month
\* (records of unknown month not counting), reports insufficient data and
\* stops before month selection and before any rate.
C5_OneMonthIsInsufficient ==
  /\ page.page \in {"ped_step3", "adult_step3"}
  /\ page.status \in {"done", "insufficient"}
  /\ Cardinality(ComparedMonths) = 1
  => page.status = "insufficient"

\* the records Step 4 reads: both datasets in the pediatrics app, the
\* current one in the adult app
Step4Records ==
  IF page.page = "ped_step4" THEN StoredRecords ELSE session.df_current.rows

\* C6: deaths by age group counts the records whose outcome_norm is Dead and
\* presents all six buckets in the fixed order, empty buckets included.
C6_AllSixBucketsInOrder ==
  /\ page.page \in {"ped_step4", "adult_step4"}
  /\ page.status = "done"
  => /\ Len(page.age_counts) = 6
     /\ \A g \in 1..6 :
          /\ page.page = "ped_step4" => page.age_counts[g].age_group = age_group_labels[g]
          /\ page.page = "adult_step4" =>
               page.age_counts[g].age_group =
                 << "<1 month", "1-11 months", "1-4 years", "5-14 years", "15+ years",
                    "Unknown" >>[g]
          /\ page.age_counts[g].deaths =
               Cardinality({i \in DOMAIN Step4Records :
                              /\ Step4Records[i]["outcome_norm"] = StrText(DEAD)
                              /\ age_group(Step4Records[i]["age_days"])
                                   = age_group_labels[g]})

\* the stored calendar months as labels, earliest first
ChronologicalLabels ==
  LET sorted == SortSeq(SetToSeq(StoredMonths), MonthLess)
  IN  [g \in DOMAIN sorted |-> MonthLabel(sorted[g])]

\* C10: the Step 2 summary has exactly one row per distinct month of the
\* stored datasets, earliest first, and the comparison reads the two latest
\* calendar months.
C10_OneRowPerMonthChronological ==
  Step2Done =>
    /\ [g \in DOMAIN page.summary |-> page.summary[g].month] = ChronologicalLabels
    /\ Len(ChronologicalLabels) >= 2 =>
         /\ page.comparison # [k |-> "none"]
         /\ page.comparison.current_month = ChronologicalLabels[Len(ChronologicalLabels)]
         /\ page.comparison.prev_month = ChronologicalLabels[Len(ChronologicalLabels) - 1]

\* the stored table of the file that lacks the age, sex, outcome and diagnosis
\* columns
DegradedTable == Ingest(DegradedFile).result.df

\* C13: a dataset lacking the age, sex, outcome or diagnosis column (but with a
\* minimal column) is normalized with warnings and fallbacks, is stored, and
\* every analysis page (Steps 2-4) computes its results from it without
\* failing.
C13_DegradedDatasetProceeds ==
  /\ Ingest(DegradedFile).result.errors = << >>
  /\ Ingest(DegradedFile).result.warnings # << >>
  /\ (/\ session.df_current = DegradedTable
      /\ session.df_previous \in {NoTable, DegradedTable}
      /\ page.page \in {"ped_step2", "ped_step3", "ped_step4"})
       => page.status # "exception"

\* the members of a sequence
Members(seq) == {seq[i] : i \in DOMAIN seq}

\* C14: every warning validate_and_normalize returns for an uploaded file
\* (current or previous) is shown on the upload page, while processing of the
\* file continues.
C14_WarningsSurfaced ==
  page.page = "ped_step1" =>
    Members(page.warnings) \cup Members(page.warnings_prev)
      \subseteq Members(page.warnings_shown)

\* the last run was of an analysis page of the Pediatrics app
AnalysisPageRun == page.page \in {"ped_step2", "ped_step3", "ped_step4"}

\* the page halted telling the user to complete Step 1
PreconditionReported ==
  /\ page.status = "stopped"
  /\ page.message \in {"complete Step 1", "missing datasets", "no clean data"}

NormalizerCall == norm' # norm

\* the step is a run of an analysis page of either app
AnalysisPageStep ==
  /\ page' # page \/ session' # session
  /\ page'.page \in {"ped_step2", "ped_step3", "ped_step4", "adult_step3", "adult_step4"}

ValidTables ==
  {Ingest(f).result.df : f \in {g \in SessionFiles : UploadStatus(Ingest(g)) = "validated"}}

\* the step is a run of the upload page
UploadRun == page'.page = "ped_step1" /\ (page' # page \/ session' # session)

\* C18: across upload-page runs the stored current (respectively previous)
\* dataset is replaced only by an upload of that slot that is parsed and
\* normalized without fatal error while auto-store is enabled; an upload that
\* cannot be read or fails validation leaves the stored datasets as they
\* were, a failure in one slot does not prevent storing the other, and no
\* page ever removes a stored dataset.
C18_StoreReplacement ==
  [][/\ session'.df_current # session.df_current
          => /\ UploadRun /\ page'.current = "validated" /\ page'.auto_store
             /\ session'.df_current \in ValidTables
     /\ session'.df_previous # session.df_previous
          => /\ UploadRun /\ page'.previous = "validated" /\ page'.auto_store
             /\ session'.df_previous \in ValidTables
     /\ (UploadRun /\ page'.auto_store /\ page'.current = "validated")
          => session'.df_current \in ValidTables
     /\ (UploadRun /\ page'.auto_store /\ page'.previous = "validated")
          => session'.df_previous \in ValidTables
     /\ session.df_current # NoTable => session'.df_current # NoTable
     /\ session.df_previous # NoTable => session'.df_previous # NoTable]_vars

\* an upload run whose current file failed while a current dataset was
\* already stored, and whose previous file was stored
C18_Witness ==
  /\ page.page = "ped_step1"
  /\ page.auto_store
  /\ page.current \in {"unreadable", "invalid"}
  /\ page.previous = "validated"
  /\ session.df_current \in ValidTables
  /\ session.df_previous \in ValidTables

\* the stored records whose normalized outcome is Dead
DeadRecords ==
  {i \in DOMAIN StoredRecords : StoredRecords[i]["outcome_norm"] = StrText(DEAD)}

\* the deaths of all the rows of a Step 2 summary
RECURSIVE TotalDeaths(_)
TotalDeaths(summary) ==
  IF summary = << >> THEN 0
  ELSE Head(summary).total_deaths + TotalDeaths(Tail(summary))

\* Step 3's numbers for a month are those of Step 2's row for that month
SameAsStep2(month, stats) ==
  \A g \in DOMAIN Step2Page(session).summary :
    LET row == Step2Page(session).summary[g]
    IN  row.month = month =>
          /\ row.total_admissions = stats.total_adm
          /\ row.total_deaths = stats.total_dead
          /\ row.mortality_rate = stats.mortality_rate

\* C19: all pages apply the same death criterion to the same stored
\* datasets: the records counted as deaths by the Step 2 summary and by the
\* Step 3 comparison are those counted by the Step 4 view, the records whose
\* normalized outcome is Dead, and Step 3's per-month admissions, deaths and
\* rate equal Step 2's row for that month.
C19_SameDeathCriterion ==
  /\ Step2Done => TotalDeaths(page.summary) = Cardinality(DeadRecords)
  /\ (page.page = "ped_step4" /\ page.status = "done")
       => page.deaths = Cardinality(DeadRecords)
  /\ (page.page = "ped_step3" /\ page.status = "done")
       => /\ \A s \in {page.stats1, page.stats2} : s.total_dead <= Cardinality(DeadRecords)
          /\ Step2Page(session).status = "done"
               => /\ SameAsStep2(page.month1, page.stats1)
                  /\ SameAsStep2(page.month2, page.stats2)

====
